---------------------------- MODULE Spec2Model ----------------------------
(***************************************************************************)
(* Feature-engineering pipeline of src/src/02_feature_engineering.py:      *)
(*   load_and_prepare_data -> create_rolling_features -> encode_teams ->   *)
(*   create_comparison_features -> clean_data -> to_csv                    *)
(* run by main() on one season file.                                       *)
(*                                                                         *)
(* Numbers.  Raw statistics are integers (xg in tenths).  A rolling mean   *)
(* is over 1..5 values, so it is kept exactly as Scale times the mean      *)
(* (Scale = 60 is divisible by every sample count): 0.4 is 24.  A missing  *)
(* value (pandas NaN) is the empty set, a present value v is {v}.          *)
(***************************************************************************)
EXTENDS Integers, Sequences, FiniteSets, TLC

VARIABLES
    raw,             \* the rows of the season CSV file as read by pd.read_csv
    pc,              \* position of process_season_data
    df,              \* the fixture rows after load_and_prepare_data
    cols,            \* the column names of the working table, in order
    todo,            \* teams the loop of create_rolling_features still has to visit
    team,            \* the loop variable of create_rolling_features ("" before the loop)
    all_team_games,  \* the history built in the latest loop iteration
    roll,            \* per row: the home_* and away_* rolling cells of df_prep
    indicators,      \* the columns encode_teams has appended
    encodes,         \* number of calls of encode_teams so far
    diffs,           \* per row: the five comparison cells
    output,          \* what to_csv has written (<<>>: nothing)
    err              \* the exception main() caught, if any

vars == <<raw, pc, df, cols, todo, team, all_team_games, roll, indicators,
          encodes, diffs, output, err>>

-----------------------------------------------------------------------------
(* Bounds of the model *)

\* rows of a short table (three teams, free pairings and date ties)
MaxRows == 3

\* rows of a long table (one fixture per date, two teams alternating venue)
LongRows == 7

\* how often a caller applies encode_teams to the same table
MaxEncodeCalls == 2

-----------------------------------------------------------------------------
(* Program constants *)

\* rolling(5, min_periods=1)
Window == 5

\* min_periods=1
MinPeriods == 1

\* shift(1)
ShiftBy == 1

\* common multiple of the sample counts 1..Window (and of Window + 1)
Scale == 3 * 4 * 5

Teams == {"A", "B", "C"}

\* lexicographic order of the team names (get_dummies sorts the categories)
TeamOrder == <<"A", "B", "C">>

NaN == {}

Some(x) == {x}

Max(a, b) == IF a >= b THEN a ELSE b

RECURSIVE Tabulate(_, _)
\* the sequence <<F(1), ..., F(n)>>
Tabulate(F(_), n) == IF n = 0 THEN <<>> ELSE Append(Tabulate(F, n - 1), F(n))

-----------------------------------------------------------------------------
(* Input tables *)

Labels == {"W", "D", "L", "X"}

\* the raw statistics of a fixture; one profile per outcome label, all
\* home-side and away-side values different wherever the outcome allows
Profile(l) ==
    CASE l = "W" -> [home_goals |-> 2, away_goals |-> 0, home_xg |-> 18, away_xg |-> 7,
                     home_sh |-> 14, away_sh |-> 6, home_shot_on_target |-> 5,
                     away_shot_on_target |-> 1, home_poss |-> 60, away_poss |-> 40]
      [] l = "D" -> [home_goals |-> 1, away_goals |-> 1, home_xg |-> 11, away_xg |-> 12,
                     home_sh |-> 9, away_sh |-> 10, home_shot_on_target |-> 3,
                     away_shot_on_target |-> 4, home_poss |-> 48, away_poss |-> 52]
      [] l = "L" -> [home_goals |-> 0, away_goals |-> 1, home_xg |-> 8, away_xg |-> 15,
                     home_sh |-> 7, away_sh |-> 13, home_shot_on_target |-> 2,
                     away_shot_on_target |-> 6, home_poss |-> 45, away_poss |-> 55]
      [] OTHER   -> [home_goals |-> 3, away_goals |-> 3, home_xg |-> 21, away_xg |-> 19,
                     home_sh |-> 11, away_sh |-> 12, home_shot_on_target |-> 7,
                     away_shot_on_target |-> 8, home_poss |-> 51, away_poss |-> 49]

RawRow(d, h, a, l) ==
    [date |-> d, home_team |-> h, away_team |-> a, result |-> l, stats |-> Profile(l)]

Pairings == {p \in Teams \X Teams : p[1] # p[2]}

\* dates of a table written by the preprocessing step: ascending; rows tie
\* and tie + 1 share a date (tie = 0: every row has its own date)
DateOf(tie, i) == IF tie # 0 /\ i > tie THEN i - 1 ELSE i

\* the outcome labels of a short table follow W, D, L in turn from any start
LabelCycle == <<"W", "D", "L">>

ShortTable(n, pairs, tie, first) ==
    Tabulate(LAMBDA i : RawRow(DateOf(tie, i), pairs[i][1], pairs[i][2],
                               LabelCycle[((first + i) % 3) + 1]), n)

LongTable(ls) ==
    Tabulate(LAMBDA i : IF i % 2 = 1 THEN RawRow(i, "A", "B", ls[i])
                                     ELSE RawRow(i, "B", "A", ls[i]), LongRows)

\* a table of n rows like a long table, any label in every row
CorruptTable(n, ls) ==
    Tabulate(LAMBDA i : IF i % 2 = 1 THEN RawRow(i, "A", "B", ls[i])
                                     ELSE RawRow(i, "B", "A", ls[i]), n)

\* the columns of a preprocessed season file
RawColumns ==
    <<"date", "time", "round", "home_team", "away_team", "venue", "result",
      "home_goals", "away_goals", "home_poss", "away_poss", "home_xg", "away_xg",
      "home_sh", "away_sh", "home_shot_on_target", "away_shot_on_target", "season">>

-----------------------------------------------------------------------------
(* load_and_prepare_data *)

results_map == [W |-> 1, D |-> 0, L |-> -1]

\* the lookup with a default, results_map.get(x, 0): nothing raises
MapResultDefault(x) == IF x \in DOMAIN results_map THEN {results_map[x]} ELSE {0}

\* lambda x: results_map[x]: the value as {v}; a label that is no key
\* raises KeyError, written {}
MapResult(x) == IF x \in DOMAIN results_map THEN {results_map[x]} ELSE {}

Raises(v) == v = {}

LoadedRow(r, i) ==
    [idx |-> i, date |-> r.date, home_team |-> r.home_team, away_team |-> r.away_team,
     result |-> (CHOOSE v \in MapResult(r.result) : TRUE), stats |-> r.stats]

NoError == [kind |-> "", at |-> ""]

EmptyStats ==
    [form_last_5 |-> NaN, avg_goals_last_5 |-> NaN, avg_goals_conceded_last_5 |-> NaN,
     avg_xg_last_5 |-> NaN, avg_xg_conceded_last_5 |-> NaN, avg_poss_last_5 |-> NaN,
     avg_shots_last_5 |-> NaN, avg_shots_on_target_last_5 |-> NaN]

StatNames == DOMAIN EmptyStats

\* Series.unique(): the distinct values in order of first appearance
RECURSIVE Unique(_)
Unique(s) ==
    IF s = <<>> THEN <<>>
    ELSE LET front == Unique(SubSeq(s, 1, Len(s) - 1))
             x == s[Len(s)]
         IN IF \E k \in 1..Len(front) : front[k] = x THEN front ELSE Append(front, x)

HomeTeamColumn(d) == Tabulate(LAMBDA i : d[i].home_team, Len(d))

AwayTeamColumn(d) == Tabulate(LAMBDA i : d[i].away_team, Len(d))

-----------------------------------------------------------------------------
(* create_rolling_features: the history of one team *)

\* df_prep[df_prep['home_team'] == team]
team_home_games(d, t) == SelectSeq(d, LAMBDA r : r.home_team = t)

\* df_prep[df_prep['away_team'] == team]
team_away_games(d, t) == SelectSeq(d, LAMBDA r : r.away_team = t)

\* the away record with the result left in the home team's perspective
AwayPerspectiveUnflipped(r) ==
    [idx |-> r.idx, date |-> r.date, home_team |-> r.home_team, away_team |-> r.away_team,
     result |-> r.result,
     team_goals |-> r.stats.away_goals,
     team_xg |-> r.stats.away_xg,
     team_shots |-> r.stats.away_sh,
     team_shots_on_target |-> r.stats.away_shot_on_target,
     team_poss |-> r.stats.away_poss,
     team_goals_conceded |-> r.stats.home_goals,
     team_xg_conceded |-> r.stats.home_xg]

\* an away fixture from the team's perspective: result flipped, away-side
\* values as the team's own, home-side values as conceded
AwayPerspective(r) ==
    [idx |-> r.idx, date |-> r.date, home_team |-> r.home_team, away_team |-> r.away_team,
     result |-> r.result * (-1),
     team_goals |-> r.stats.away_goals,
     team_xg |-> r.stats.away_xg,
     team_shots |-> r.stats.away_sh,
     team_shots_on_target |-> r.stats.away_shot_on_target,
     team_poss |-> r.stats.away_poss,
     team_goals_conceded |-> r.stats.home_goals,
     team_xg_conceded |-> r.stats.home_xg]

\* a home fixture from the team's perspective
HomePerspective(r) ==
    [idx |-> r.idx, date |-> r.date, home_team |-> r.home_team, away_team |-> r.away_team,
     result |-> r.result,
     team_goals |-> r.stats.home_goals,
     team_xg |-> r.stats.home_xg,
     team_shots |-> r.stats.home_sh,
     team_shots_on_target |-> r.stats.home_shot_on_target,
     team_poss |-> r.stats.home_poss,
     team_goals_conceded |-> r.stats.away_goals,
     team_xg_conceded |-> r.stats.away_xg]

MapSeq(Op(_), s) == Tabulate(LAMBDA i : Op(s[i]), Len(s))

\* the history without the away games: a venue-specific form
ConcatHomeOnly(d, t) ==
    Tabulate(LAMBDA i : HomePerspective(team_home_games(d, t)[i]),
             Len(team_home_games(d, t)))

\* pd.concat([team_home_games, team_away_games])
Concat(d, t) ==
    MapSeq(HomePerspective, team_home_games(d, t)) \o
    MapSeq(AwayPerspective, team_away_games(d, t))

RECURSIVE SortedOrders(_, _)
\* the orders of the positions S of s that ascend by date
SortedOrders(s, S) ==
    IF S = {} THEN {<<>>}
    ELSE UNION {{<<i>> \o rest : rest \in SortedOrders(s, S \ {i})}
                : i \in {j \in S : \A k \in S : s[j].date <= s[k].date}}

\* sort_values('date'): the default sort is not stable, so records of one
\* date may come out in any order
SortValues(s) ==
    {Tabulate(LAMBDA k : s[o[k]], Len(s)) : o \in SortedOrders(s, 1..Len(s))}

RECURSIVE Sum(_, _, _)
Sum(v, lo, hi) == IF lo > hi THEN 0 ELSE v[hi] + Sum(v, lo, hi - 1)

\* a window one match too long, rolling(6, min_periods=1)
rolling_mean_wide(v) ==
    Tabulate(LAMBDA j :
                LET lo == Max(1, j - Window)
                    n == j - lo + 1
                IN IF n >= MinPeriods THEN Some((Sum(v, lo, j) * Scale) \div n) ELSE NaN,
             Len(v))

\* rolling(5, min_periods=1).mean(): at j, the mean of the values at the
\* positions j-4 .. j that exist
rolling_mean(v) ==
    Tabulate(LAMBDA j :
                LET lo == Max(1, j - Window + 1)
                    n == j - lo + 1
                IN IF n >= MinPeriods THEN Some((Sum(v, lo, j) * Scale) \div n) ELSE NaN,
             Len(v))

\* the shift left out: the mean at a match includes the match
shift_none(r) == r

\* shift(1): every value moves one position down, the first becomes missing
shift(r) == Tabulate(LAMBDA i : IF i <= ShiftBy THEN NaN ELSE r[i - ShiftBy], Len(r))

Column(h, f) == Tabulate(LAMBDA i : h[i][f], Len(h))

\* the eight rolling columns of a sorted history
RollingStats(h) ==
    LET form == shift(rolling_mean(Column(h, "result")))
        goals == shift(rolling_mean(Column(h, "team_goals")))
        conceded == shift(rolling_mean(Column(h, "team_goals_conceded")))
        xg == shift(rolling_mean(Column(h, "team_xg")))
        xgc == shift(rolling_mean(Column(h, "team_xg_conceded")))
        poss == shift(rolling_mean(Column(h, "team_poss")))
        shots == shift(rolling_mean(Column(h, "team_shots")))
        sot == shift(rolling_mean(Column(h, "team_shots_on_target")))
    IN Tabulate(LAMBDA i :
          [form_last_5 |-> form[i], avg_goals_last_5 |-> goals[i],
           avg_goals_conceded_last_5 |-> conceded[i], avg_xg_last_5 |-> xg[i],
           avg_xg_conceded_last_5 |-> xgc[i], avg_poss_last_5 |-> poss[i],
           avg_shots_last_5 |-> shots[i], avg_shots_on_target_last_5 |-> sot[i]],
          Len(h))

\* all_team_games with its rolling columns
WithRolling(h) ==
    LET rs == RollingStats(h)
    IN Tabulate(LAMBDA i : [rec |-> h[i], stats |-> rs[i]], Len(h))

\* all_team_games[all_team_games['date'] == match_date]
team_stats(h, match_date) == SelectSeq(h, LAMBDA e : e.rec.date = match_date)

\* the venue filter left out: every row of the table
home_matches_all(d, t) == 1..Len(d)

\* home_matches.index
home_matches(d, t) == {i \in 1..Len(d) : d[i].home_team = t}

\* away_matches.index
away_matches(d, t) == {i \in 1..Len(d) : d[i].away_team = t}

\* the cells of row i after the map-back of team t with history h
MapBack(d, h, t, cells, i) ==
    LET ts == team_stats(h, d[i].date)
        home == IF i \in home_matches(d, t) /\ ts # <<>> THEN ts[1].stats ELSE cells.home
        away == IF i \in away_matches(d, t) /\ ts # <<>> THEN ts[1].stats ELSE cells.away
    IN [home |-> home, away |-> away]

HomeRollingColumns ==
    <<"home_form_last_5", "home_avg_goals_last_5", "home_avg_goals_conceded_last_5",
      "home_avg_xg_last_5", "home_avg_xg_conceded_last_5", "home_avg_poss_last_5",
      "home_avg_shots_last_5", "home_avg_shots_on_target_last_5">>

AwayRollingColumns ==
    <<"away_form_last_5", "away_avg_goals_last_5", "away_avg_goals_conceded_last_5",
      "away_avg_xg_last_5", "away_avg_xg_conceded_last_5", "away_avg_poss_last_5",
      "away_avg_shots_last_5", "away_avg_shots_on_target_last_5">>

HasColumn(cs, c) == \E k \in 1..Len(cs) : cs[k] = c

\* df_prep.loc[idx, c] = value creates column c when the table has none
AddColumns(cs, new) == cs \o SelectSeq(new, LAMBDA c : ~HasColumn(cs, c))

\* the columns after the map-back of team t: a group of columns appears with
\* the first row written
ColumnsAfterMapBack(cs, d, h, t) ==
    LET written(rows) == \E i \in rows : team_stats(h, d[i].date) # <<>>
        c1 == IF written(home_matches(d, t)) THEN AddColumns(cs, HomeRollingColumns) ELSE cs
    IN IF written(away_matches(d, t)) THEN AddColumns(c1, AwayRollingColumns) ELSE c1

-----------------------------------------------------------------------------
(* encode_teams *)

HomeDummy == [A |-> "home_A", B |-> "home_B", C |-> "home_C"]

AwayDummy == [A |-> "away_A", B |-> "away_B", C |-> "away_C"]

Values(column) == {column[i] : i \in 1..Len(column)}

\* pd.get_dummies(df[['home_team', 'away_team']], prefix=['home', 'away'], dtype=int):
\* one 0/1 column per value of home_team, then one per value of away_team,
\* each group in sorted order of the values
get_dummies(d) ==
    LET home == SelectSeq(TeamOrder, LAMBDA t : t \in Values(HomeTeamColumn(d)))
        away == SelectSeq(TeamOrder, LAMBDA t : t \in Values(AwayTeamColumn(d)))
    IN Tabulate(LAMBDA k :
          [name |-> HomeDummy[home[k]],
           vals |-> Tabulate(LAMBDA i : IF d[i].home_team = home[k] THEN 1 ELSE 0, Len(d))],
          Len(home))
       \o
       Tabulate(LAMBDA k :
          [name |-> AwayDummy[away[k]],
           vals |-> Tabulate(LAMBDA i : IF d[i].away_team = away[k] THEN 1 ELSE 0, Len(d))],
          Len(away))

Names(dummies) == Tabulate(LAMBDA k : dummies[k].name, Len(dummies))

\* pd.concat([df, dummies], axis=1): the columns are appended as they are
ConcatColumns(cs, dummies) == cs \o Names(dummies)

-----------------------------------------------------------------------------
(* create_comparison_features *)

Value(a) == CHOOSE x \in a : TRUE

\* float subtraction: missing when either operand is missing
Sub(a, b) == IF a = NaN \/ b = NaN THEN NaN ELSE Some(Value(a) - Value(b))

DiffColumns ==
    <<"form_difference", "goals_difference", "xg_difference", "poss_difference",
      "defensive_difference">>

\* the columns create_comparison_features reads, in the order it reads them
ComparisonOperands ==
    <<"home_form_last_5", "away_form_last_5", "home_avg_goals_last_5",
      "away_avg_goals_last_5", "home_avg_xg_last_5", "away_avg_xg_last_5",
      "home_avg_poss_last_5", "away_avg_poss_last_5",
      "away_avg_goals_conceded_last_5", "home_avg_goals_conceded_last_5">>

form_difference(c) == Sub(c.home.form_last_5, c.away.form_last_5)

goals_difference(c) == Sub(c.home.avg_goals_last_5, c.away.avg_goals_last_5)

xg_difference(c) == Sub(c.home.avg_xg_last_5, c.away.avg_xg_last_5)

poss_difference(c) == Sub(c.home.avg_poss_last_5, c.away.avg_poss_last_5)

\* the defensive difference taken home minus away like the others
defensive_difference_home_minus_away(c) ==
    Sub(c.home.avg_goals_conceded_last_5, c.away.avg_goals_conceded_last_5)

defensive_difference(c) ==
    Sub(c.away.avg_goals_conceded_last_5, c.home.avg_goals_conceded_last_5)

ComparisonRow(c) ==
    [form_difference |-> form_difference(c),
     goals_difference |-> goals_difference(c),
     xg_difference |-> xg_difference(c),
     poss_difference |-> poss_difference(c),
     defensive_difference |-> defensive_difference(c)]

-----------------------------------------------------------------------------
(* clean_data *)

columns_to_drop == {"season", "home_formation", "away_formaation"}

DropColumns(cs) == SelectSeq(cs, LAMBDA c : c \notin columns_to_drop)

-----------------------------------------------------------------------------
(* The pipeline *)

\* a short table: any pairing in every row, two rows of one date or none,
\* labels in turn
IsShortTable(t) ==
    \E n \in 1..MaxRows :
        \E pairs \in [1..n -> Pairings], tie \in 0..(n - 1), first \in 0..2 :
            t = ShortTable(n, pairs, tie, first)

\* a long table: any recognised label in every row
IsLongTable(t) == \E ls \in [1..LongRows -> DOMAIN results_map] : t = LongTable(ls)

\* a corrupt table: some row carries a label that is no outcome
IsCorruptTable(t) ==
    \E n \in 1..MaxRows :
        \E ls \in [1..n -> Labels] :
            /\ \E i \in 1..n : ls[i] \notin DOMAIN results_map
            /\ t = CorruptTable(n, ls)

Init ==
    /\ IsShortTable(raw) \/ IsLongTable(raw) \/ IsCorruptTable(raw)
    /\ pc = "load"
    /\ df = <<>>
    /\ cols = <<>>
    /\ todo = <<>>
    /\ team = ""
    /\ all_team_games = <<>>
    /\ roll = <<>>
    /\ indicators = <<>>
    /\ encodes = 0
    /\ diffs = <<>>
    /\ output = <<>>
    /\ err = NoError

\* main() catches the exception of process_season_data and prints it; the
\* file gets no output
Raise(kind, at) ==
    /\ pc' = "failed"
    /\ err' = [kind |-> kind, at |-> at]

\* load_and_prepare_data(filepath)
Load ==
    /\ pc = "load"
    /\ IF \A i \in 1..Len(raw) : ~Raises(MapResult(raw[i].result))
       THEN /\ df' = Tabulate(LAMBDA i : LoadedRow(raw[i], i), Len(raw))
            /\ cols' = RawColumns
            /\ pc' = "rolling"
            /\ err' = err
       ELSE /\ Raise("KeyError", "load_and_prepare_data")
            /\ UNCHANGED <<df, cols>>
    /\ UNCHANGED <<raw, todo, team, all_team_games, roll, indicators, encodes,
                   diffs, output>>

\* create_rolling_features up to its loop: df_prep = df.copy() and the teams
\* to visit, df_prep['home_team'].unique()
StartRolling ==
    /\ pc = "rolling"
    /\ team = ""
    /\ todo = <<>>
    /\ roll' = Tabulate(LAMBDA i : [home |-> EmptyStats, away |-> EmptyStats], Len(df))
    /\ todo' = Unique(HomeTeamColumn(df))
    /\ pc' = "team"
    /\ UNCHANGED <<raw, df, cols, team, all_team_games, indicators, encodes, diffs,
                   output, err>>

Remove(s, k) == SubSeq(s, 1, k - 1) \o SubSeq(s, k + 1, Len(s))

\* one iteration of the loop of create_rolling_features, for the team at
\* position k of the teams left (the code takes k = 1)
RollTeam(k) ==
    /\ pc = "team"
    /\ k \in 1..Len(todo)
    /\ \E t \in {todo[k]} :
          \E h \in {WithRolling(sorted) : sorted \in SortValues(Concat(df, t))} :
             /\ team' = t
             /\ all_team_games' = h
             /\ roll' = Tabulate(LAMBDA i : MapBack(df, h, t, roll[i], i), Len(df))
             /\ cols' = ColumnsAfterMapBack(cols, df, h, t)
    /\ todo' = Remove(todo, k)
    /\ pc' = IF todo' = <<>> THEN "encode" ELSE "team"
    /\ UNCHANGED <<raw, df, indicators, encodes, diffs, output, err>>

\* encode_teams(df_with_rolling); create_rolling_features has returned and
\* its locals are gone
Encode ==
    /\ pc = "encode"
    /\ indicators' = indicators \o get_dummies(df)
    /\ cols' = ConcatColumns(cols, get_dummies(df))
    /\ encodes' = encodes + 1
    /\ pc' = "compare"
    /\ team' = ""
    /\ all_team_games' = <<>>
    /\ UNCHANGED <<raw, df, todo, roll, diffs, output, err>>

\* encode_teams applied once more, to the table it has already encoded
EncodeAgain ==
    /\ pc = "compare"
    /\ encodes < MaxEncodeCalls
    /\ indicators' = indicators \o get_dummies(df)
    /\ cols' = ConcatColumns(cols, get_dummies(df))
    /\ encodes' = encodes + 1
    /\ UNCHANGED <<raw, pc, df, todo, team, all_team_games, roll, diffs, output, err>>

\* create_comparison_features(df_encoded): df[c] raises KeyError when the
\* table has no column c
Compare ==
    /\ pc = "compare"
    /\ IF \A k \in 1..Len(ComparisonOperands) : HasColumn(cols, ComparisonOperands[k])
       THEN /\ diffs' = Tabulate(LAMBDA i : ComparisonRow(roll[i]), Len(df))
            /\ cols' = AddColumns(cols, DiffColumns)
            /\ pc' = "clean"
            /\ err' = err
       ELSE /\ Raise("KeyError", "create_comparison_features")
            /\ UNCHANGED <<diffs, cols>>
    /\ UNCHANGED <<raw, df, todo, team, all_team_games, roll, indicators, encodes,
                   output>>

\* clean_data(df_with_comparisons) and df_final.to_csv(output_path)
CleanSave ==
    /\ pc = "clean"
    /\ cols' = DropColumns(cols)
    /\ output' = <<[columns |-> cols', rows |-> Len(df)]>>
    /\ pc' = "done"
    /\ UNCHANGED <<raw, df, todo, team, all_team_games, roll, indicators, encodes,
                   diffs, err>>

Next ==
    \/ Load
    \/ StartRolling
    \/ RollTeam(1)
    \/ Encode
    \/ Compare
    \/ CleanSave

Spec == Init /\ [][Next]_vars

\* load_and_prepare_data and create_rolling_features with the teams visited
\* in any order
NextAnyOrder ==
    \/ Load
    \/ StartRolling
    \/ \E k \in 1..Len(todo) : RollTeam(k)

SpecAnyOrder == Init /\ [][NextAnyOrder]_vars

\* a caller that encodes an encoded table again
NextTwice ==
    \/ Load
    \/ StartRolling
    \/ RollTeam(1)
    \/ Encode
    \/ EncodeAgain
    \/ Compare
    \/ CleanSave

SpecTwice == Init /\ [][NextTwice]_vars

-----------------------------------------------------------------------------
(* What the fixture table says about a team, stated on the table alone *)

Plays(r, t) == r.home_team = t \/ r.away_team = t

\* the fixtures in which team t takes part
Fixtures(d, t) == {i \in 1..Len(d) : Plays(d[i], t)}

\* team t's own value, in fixture r, of the statistic behind rolling column f
OwnValue(r, t, f) ==
    LET home == r.home_team = t
    IN CASE f = "form_last_5" -> IF home THEN r.result ELSE 0 - r.result
         [] f = "avg_goals_last_5" -> IF home THEN r.stats.home_goals ELSE r.stats.away_goals
         [] f = "avg_goals_conceded_last_5" ->
                IF home THEN r.stats.away_goals ELSE r.stats.home_goals
         [] f = "avg_xg_last_5" -> IF home THEN r.stats.home_xg ELSE r.stats.away_xg
         [] f = "avg_xg_conceded_last_5" -> IF home THEN r.stats.away_xg ELSE r.stats.home_xg
         [] f = "avg_poss_last_5" -> IF home THEN r.stats.home_poss ELSE r.stats.away_poss
         [] f = "avg_shots_last_5" -> IF home THEN r.stats.home_sh ELSE r.stats.away_sh
         [] f = "avg_shots_on_target_last_5" ->
                IF home THEN r.stats.home_shot_on_target ELSE r.stats.away_shot_on_target

RECURSIVE SumOwn(_, _, _, _)
SumOwn(d, t, f, S) ==
    IF S = {} THEN 0
    ELSE LET i == CHOOSE j \in S : TRUE
         IN OwnValue(d[i], t, f) + SumOwn(d, t, f, S \ {i})

\* the latest five fixtures of t before date day: those with fewer than five
\* fixtures of t between them and day
PriorWindow(d, t, day) ==
    LET P == {i \in Fixtures(d, t) : d[i].date < day}
    IN {i \in P : Cardinality({j \in P : d[j].date > d[i].date}) < 5}

\* the rolling statistics of t at date day: the means over PriorWindow
ExpectedStats(d, t, day) ==
    LET S == PriorWindow(d, t, day)
    IN IF S = {} THEN EmptyStats
       ELSE [f \in StatNames |-> Some((SumOwn(d, t, f, S) * Scale) \div Cardinality(S))]

FirstDate(d, t) == CHOOSE day \in {d[i].date : i \in Fixtures(d, t)} :
                      \A i \in Fixtures(d, t) : day <= d[i].date

\* the column of the history that rolling column f averages
StatSource ==
    [form_last_5 |-> "result", avg_goals_last_5 |-> "team_goals",
     avg_goals_conceded_last_5 |-> "team_goals_conceded", avg_xg_last_5 |-> "team_xg",
     avg_xg_conceded_last_5 |-> "team_xg_conceded", avg_poss_last_5 |-> "team_poss",
     avg_shots_last_5 |-> "team_shots",
     avg_shots_on_target_last_5 |-> "team_shots_on_target"]

\* the mean, times Scale, of the history's column c over positions lo..hi
HistoryMean(h, c, lo, hi) ==
    LET total == Sum(Tabulate(LAMBDA k : h[k].rec[c], Len(h)), lo, hi)
    IN (total * Scale) \div (hi - lo + 1)

\* the loop of create_rolling_features has started
Rolled == pc \in {"team", "encode", "compare", "clean", "done", "failed"} /\ roll # <<>>

\* the loop of create_rolling_features has finished
LoopDone == pc \in {"encode", "compare", "clean", "done"} \/ (pc = "failed" /\ roll # <<>>)

\* the teams whose loop iteration has run
Visited ==
    IF Rolled /\ pc # "rolling"
    THEN {t \in Values(HomeTeamColumn(df)) : \A k \in 1..Len(todo) : todo[k] # t}
    ELSE {}

-----------------------------------------------------------------------------
(* The claims *)

\* C1: no-leakage window.  In the date-ordered history of the team just
\* processed, each of the eight rolling statistics at position i >= 2 (the
\* claim's index i >= 1) is the mean of the team's own statistic over the
\* positions max(1, i-5) .. i-1, so over earlier matches only.
C1_NoLeakageWindow ==
    team # "" =>
        /\ \A i \in 1..Len(all_team_games) - 1 :
              all_team_games[i].rec.date <= all_team_games[i + 1].rec.date
        /\ \A i \in 2..Len(all_team_games) : \A f \in StatNames :
              all_team_games[i].stats[f] =
                  Some(HistoryMean(all_team_games, StatSource[f], Max(1, i - 5), i - 1))

\* C1 witness: team A with results +1,+1,-1,0,+1,-1 has form 0.4 (24/60) at
\* its sixth match, and at its seventh the first match has left the window
C1_Witness ==
    /\ team = "A"
    /\ Len(all_team_games) >= 7
    /\ [i \in 1..6 |-> all_team_games[i].rec.result] = <<1, 1, -1, 0, 1, -1>>
    /\ all_team_games[6].stats.form_last_5 = Some(24)
    /\ all_team_games[7].stats.form_last_5 = Some(0)

\* C2: the rolling statistics attached to a team's first chronological
\* match are all missing, on the side the team plays in it, and
\* create_rolling_features never raises.
C2_FirstMatchMissing ==
    /\ Rolled =>
          \A i \in 1..Len(df) :
             /\ df[i].date = FirstDate(df, df[i].home_team) => roll[i].home = EmptyStats
             /\ df[i].date = FirstDate(df, df[i].away_team) => roll[i].away = EmptyStats
    /\ err.at # "create_rolling_features"
    /\ pc = "failed" => err.at \in {"load_and_prepare_data", "create_comparison_features"}

\* C2 witness: the loop has finished on a table whose first fixture is the
\* first match of both teams and has every rolling cell missing, while a
\* later fixture has values on both sides
C2_Witness ==
    /\ pc = "encode"
    /\ \E i, j \in 1..Len(df) :
          /\ df[i].date = FirstDate(df, df[i].home_team)
          /\ df[i].date = FirstDate(df, df[i].away_team)
          /\ roll[i] = [home |-> EmptyStats, away |-> EmptyStats]
          /\ \A f \in StatNames : roll[j].home[f] # NaN /\ roll[j].away[f] # NaN

\* C3: a history is built for every team of the table, home or away, so once
\* the loop has finished the away_* statistics of every fixture are those of
\* the away team's own earlier matches, and present when it has any.
C3_AwayTeamHasHistory ==
    LoopDone =>
        \A i \in 1..Len(df) :
            /\ roll[i].away = ExpectedStats(df, df[i].away_team, df[i].date)
            /\ (\E j \in Fixtures(df, df[i].away_team) : df[j].date < df[i].date) =>
                  \A f \in StatNames : roll[i].away[f] # NaN

\* C4: a (team, date) lookup that matches several records of the history
\* with differing rolling values fails the run with AmbiguousMatch.
C4_AmbiguousMatchRaises ==
    (/\ team # ""
     /\ \E i \in Fixtures(df, team) :
           LET ts == team_stats(all_team_games, df[i].date)
           IN \E a, b \in 1..Len(ts) : ts[a].stats # ts[b].stats)
    => (pc = "failed" /\ err.kind = "AmbiguousMatch")

\* C5: create_comparison_features sets form, goals, xg and possession
\* differences to home minus away and the defensive difference to away
\* conceded minus home conceded; a difference is missing exactly when an
\* operand is, and the step changes nothing else of the rows.
C5_ComparisonFeatures ==
    [][(pc = "compare" /\ pc' = "clean") =>
          /\ df' = df /\ roll' = roll /\ indicators' = indicators
          /\ Len(diffs') = Len(df)
          /\ \A i \in 1..Len(df) :
               LET IsDiff(x, a, b) ==
                       /\ (x = NaN) <=> (a = NaN \/ b = NaN)
                       /\ (a # NaN /\ b # NaN) => x = Some(Value(a) - Value(b))
                   h == roll[i].home
                   a == roll[i].away
               IN /\ IsDiff(diffs'[i].form_difference, h.form_last_5, a.form_last_5)
                  /\ IsDiff(diffs'[i].goals_difference,
                            h.avg_goals_last_5, a.avg_goals_last_5)
                  /\ IsDiff(diffs'[i].xg_difference, h.avg_xg_last_5, a.avg_xg_last_5)
                  /\ IsDiff(diffs'[i].poss_difference,
                            h.avg_poss_last_5, a.avg_poss_last_5)
                  /\ IsDiff(diffs'[i].defensive_difference,
                            a.avg_goals_conceded_last_5, h.avg_goals_conceded_last_5)]_vars

\* C5 witness: compared rows, one with all differences missing and one with
\* all present and a non-zero defensive difference
C5_Witness ==
    /\ pc = "clean"
    /\ \E i, j \in 1..Len(df) :
          /\ \A x \in DOMAIN diffs[i] : diffs[i][x] = NaN
          /\ \A x \in DOMAIN diffs[j] : diffs[j][x] # NaN
          /\ diffs[j].defensive_difference # Some(0)

\* C6: encoding an encoded table again leaves the indicator columns as they
\* were: one per home team value and one per away team value, none twice.
C6_EncodeIdempotent ==
    encodes >= 1 =>
        /\ Len(indicators) = Cardinality(Values(HomeTeamColumn(df)))
                             + Cardinality(Values(AwayTeamColumn(df)))
        /\ \A a, b \in 1..Len(indicators) :
              indicators[a].name = indicators[b].name => a = b

\* C7: the history of a team holds one record per fixture the team takes
\* part in: home-perspective plus away-perspective records are as many as the
\* team's fixtures, none twice and none dropped.
C7_HistoryCountsFixtures ==
    team # "" =>
        LET h == all_team_games
            homeRecs == {k \in 1..Len(h) : h[k].rec.home_team = team}
            awayRecs == {k \in 1..Len(h) : h[k].rec.away_team = team}
        IN /\ Cardinality(homeRecs) + Cardinality(awayRecs)
                 = Cardinality(Fixtures(df, team))
           /\ Len(h) = Cardinality(Fixtures(df, team))
           /\ {h[k].rec.idx : k \in 1..Len(h)} = Fixtures(df, team)

\* C7 witness: a team with a home and an away fixture, in a table with a
\* fixture it does not take part in
C7_Witness ==
    /\ team # ""
    /\ \E a, b \in 1..Len(all_team_games) :
          /\ all_team_games[a].rec.home_team = team
          /\ all_team_games[b].rec.away_team = team
    /\ \E i \in 1..Len(df) : ~Plays(df[i], team)

\* C8: W, D, L become +1, 0, -1; a file with any other label fails in
\* load_and_prepare_data, gets no table and no output, and no row ever
\* carries an unmapped or defaulted result.
C8_UnknownLabelStopsFile ==
    /\ \A i \in 1..Len(df) :
          /\ raw[i].result = "W" => df[i].result = 1
          /\ raw[i].result = "D" => df[i].result = 0
          /\ raw[i].result = "L" => df[i].result = -1
          /\ raw[i].result \in {"W", "D", "L"}
    /\ (\E i \in 1..Len(raw) : raw[i].result \notin {"W", "D", "L"}) =>
          /\ pc \in {"load", "failed"}
          /\ df = <<>> /\ roll = <<>> /\ diffs = <<>> /\ output = <<>>
          /\ pc = "failed" =>
                err = [kind |-> "KeyError", at |-> "load_and_prepare_data"]

\* C8 witness: a file with a recognised and an unrecognised label has failed
C8_Witness ==
    /\ pc = "failed"
    /\ err.at = "load_and_prepare_data"
    /\ \E i, j \in 1..Len(raw) : raw[i].result = "X" /\ raw[j].result = "W"
    /\ output = <<>>

\* C9: every record of a team's history is from the team's perspective:
\* result negated and away-side values as own for an away fixture, result
\* unchanged and home-side values as own for a home fixture.
C9_TeamPerspective ==
    team # "" =>
        \A k \in 1..Len(all_team_games) :
            LET rec == all_team_games[k].rec
                r == df[rec.idx]
            IN /\ Plays(r, team)
               /\ r.away_team = team =>
                     /\ rec.result = 0 - r.result
                     /\ rec.team_goals = r.stats.away_goals
                     /\ rec.team_xg = r.stats.away_xg
                     /\ rec.team_shots = r.stats.away_sh
                     /\ rec.team_shots_on_target = r.stats.away_shot_on_target
                     /\ rec.team_poss = r.stats.away_poss
                     /\ rec.team_goals_conceded = r.stats.home_goals
                     /\ rec.team_xg_conceded = r.stats.home_xg
               /\ r.home_team = team =>
                     /\ rec.result = r.result
                     /\ rec.team_goals = r.stats.home_goals
                     /\ rec.team_xg = r.stats.home_xg
                     /\ rec.team_shots = r.stats.home_sh
                     /\ rec.team_shots_on_target = r.stats.home_shot_on_target
                     /\ rec.team_poss = r.stats.home_poss
                     /\ rec.team_goals_conceded = r.stats.away_goals
                     /\ rec.team_xg_conceded = r.stats.away_xg

\* C9 witness: a history with a won away fixture (a home loss, negated) and
\* a home fixture
C9_Witness ==
    /\ team # ""
    /\ \E a, b \in 1..Len(all_team_games) :
          /\ all_team_games[a].rec.away_team = team
          /\ df[all_team_games[a].rec.idx].result = -1
          /\ all_team_games[a].rec.result = 1
          /\ all_team_games[b].rec.home_team = team

\* C10: whatever the order of the loop, a team's iteration writes only the
\* home_* cells of its home fixtures and the away_* cells of its away
\* fixtures and no input column: at every point each cell is either still
\* missing (its team not visited) or the statistics of its own team, so the
\* final table is the same for every order.
C10_TeamsIndependent ==
    Rolled =>
        /\ df = [i \in 1..Len(raw) |-> LoadedRow(raw[i], i)]
        /\ \A i \in 1..Len(df) :
              /\ roll[i].home = IF df[i].home_team \in Visited
                                THEN ExpectedStats(df, df[i].home_team, df[i].date)
                                ELSE EmptyStats
              /\ roll[i].away = IF df[i].away_team \in Visited
                                THEN ExpectedStats(df, df[i].away_team, df[i].date)
                                ELSE EmptyStats

\* C10 witness: the loop has finished having visited last the team the code
\* visits first, with values written on both sides of some fixture
C10_Witness ==
    /\ pc = "encode"
    /\ Len(Unique(HomeTeamColumn(df))) >= 2
    /\ team = Unique(HomeTeamColumn(df))[1]
    /\ \E i \in 1..Len(df) : roll[i].home.form_last_5 # NaN /\ roll[i].away.form_last_5 # NaN

=============================================================================
